---- MODULE Spec2Model ----
(***************************************************************************)
(* Model of the "bends" locomotion features of the worm analysis toolbox:  *)
(*   wormpy/locomotion_bends.py                                            *)
(*     LocomotionCrawlingBends  (__init__, h__getBendData,                 *)
(*                               h__getBoundingZeroIndices)                *)
(*     LocomotionForagingBends  (h__foragingData, h__getAmplitudes)        *)
(*                                                                         *)
(* numpy arrays are sequences; Python's 0-based index k is position k+1.   *)
(* Floating point values are integers, NaN is the marker NaN below, and    *)
(* every arithmetic operator propagates it as IEEE arithmetic does.        *)
(***************************************************************************)
EXTENDS Integers, Sequences, FiniteSets, Bags, TLC

VARIABLES
  mode,               \* which entry point this behaviour exercises
  pc,                 \* position inside the entry point
  \* ---- LocomotionForagingBends.h__foragingData / h__getAmplitudes ----
  nose_bend_angle_d,  \* the caller's array object passed to the helper
  arg0,               \* its contents when the call was made (history)
  min_win_size,       \* second argument of h__foragingData
  amps,               \* value returned by a direct call of h__getAmplitudes
  amplitudes,         \* first value returned by h__foragingData
  speeds,             \* second value returned by h__foragingData
  \* ---- LocomotionCrawlingBends.__init__ ----
  bend_angles,        \* argument bend_angles, [49 x n_frames]
  is_paused,          \* argument is_paused
  is_segmented_mask,  \* argument is_segmented_mask
  heap,               \* the arrays allocated so far; a reference is a position
  self,               \* attributes head, midbody, tail of the object built
  bends,              \* the local dictionary bends
  todo,               \* partitions the loop has still to visit
  calls,              \* the invocations of h__getBendData made so far (a bag)
  run,                \* 1 during the first construction, 2 during the second
  first_result,       \* what the first construction returned (history)
  \* ---- LocomotionForagingBends.__init__ ----
  noseAngles,         \* h__computeAvgAngles of the head tip, in degrees
  neckAngles,         \* h__computeAvgAngles of the head base, in degrees
  ventral_mode,       \* argument ventral_mode
  foraging,           \* attributes amplitude, angleSpeed of the object built
  \* ---- LocomotionCrawlingBends.h__getBoundingZeroIndices ----
  fft_data,           \* abs(np.fft.fft(windowed_data, res))[1:res/2] of a frame
  zi_avg_bend_angles, \* argument avg_bend_angles (min_win_size is shared)
  float_index,        \* whether this numpy takes a float as an array index
  back_zeros_I,       \* first array returned
  front_zeros_I,      \* second array returned
  \* ---- locomotion_features.get_motion_codes ----
  event_mask,         \* event_list.get_event_mask(num_frames) of each motion type
  all_events_dict,    \* the dictionary being filled: 'mode' and the event keys
  motion_todo,        \* motion types the loop has not visited yet
  \* ---- one frame of the loop of h__getBoundingZeroIndices, step by step ----
  loop,               \* iFrame and the locals of the loop body
  \* ---- statistics.specs.EventSpecs.getData ----
  worm_features,      \* the event object read: its data, mask and frame arrays
  features_before,    \* its contents before the first call (history)
  event_specs,        \* the EventSpecs instance and the argument num_samples
  get_data_results    \* what each call of getData returned, in order

foragingVars == <<nose_bend_angle_d, arg0, min_win_size, amps, amplitudes, speeds>>

crawlInputs == <<bend_angles, is_paused, is_segmented_mask, fft_data>>

crawlVars == <<heap, self, bends, todo, calls>>

foragingInitVars == <<noseAngles, neckAngles, ventral_mode, foraging>>

zeroVars == <<zi_avg_bend_angles, float_index, back_zeros_I, front_zeros_I>>

motionVars == <<event_mask, all_events_dict, motion_todo>>

getDataVars == <<worm_features, features_before, event_specs, get_data_results>>

vars ==
  <<mode, pc, foragingVars, crawlInputs, crawlVars, run, first_result,
    foragingInitVars, zeroVars, motionVars, loop, getDataVars>>

----------------------------------------------------------------------------
(* Bounds of the model *)
MaxLen == 4         \* longest series handed to the foraging helpers
MaxVal == 2         \* series values range over -MaxVal..MaxVal and NaN
MaxWinSize == 2     \* min_win_size ranges over 0..MaxWinSize
MaxFrames == 2      \* most frames of a recording handed to the crawling bends
MaxNoseLen == 7     \* longest angle series handed to the foraging bends
MaxSignal == 5      \* longest signal handed to h__getBoundingZeroIndices
MaxMotionFrames == 3 \* most frames of a recording handed to get_motion_codes
MaxLoopSignal == 7  \* longest signal whose loop is followed step by step
MaxLoopMinWin == 6  \* min_win_size of that loop ranges over 1..MaxLoopMinWin
MaxSamples == 5     \* most frames of a video whose events getData reads
MaxMaskLen == 4     \* longest negate mask of an event object
MaxCalls == 2       \* calls of getData on one feature object
MaxMinWin == 4      \* its min_win_size ranges over 1..MaxMinWin

----------------------------------------------------------------------------
(* Numeric helpers: numpy semantics on integers with a NaN marker *)

NaN == -999999

FPS == 20

IsNaN(x) == x = NaN

Add(a, b) == IF a = NaN \/ b = NaN THEN NaN ELSE a + b
Sub(a, b) == IF a = NaN \/ b = NaN THEN NaN ELSE a - b
Mul(a, b) == IF a = NaN \/ b = NaN THEN NaN ELSE a * b
Neg(a) == IF a = NaN THEN NaN ELSE 0 - a
\* a / 2; every value halved in the model is an even integer (FPS is even)
Half(a) == IF a = NaN THEN NaN ELSE a \div 2

\* np.sign
Sign(x) == IF x = NaN THEN NaN ELSE IF x > 0 THEN 1 ELSE IF x < 0 THEN -1 ELSE 0

\* the != of two floats: a NaN differs from everything, itself included
NotEqual(a, b) == a = NaN \/ b = NaN \/ a # b

\* (mutant) the array np.empty returned is used as it is
NanArray_Uninitialised(garbage) == garbage

\* np.empty(n) * np.NaN : whatever the uninitialised memory holds, times NaN
NanArray(garbage) == [k \in 1..Len(garbage) |-> Mul(garbage[k], NaN)]

Min2(a, b) == IF a <= b THEN a ELSE b
Max2(a, b) == IF a >= b THEN a ELSE b

\* the ascending sequence of a finite set of integers (np.flatnonzero order)
RECURSIVE SortedSeq(_)
SortedSeq(S) ==
  IF S = {} THEN << >>
  ELSE LET m == CHOOSE x \in S : \A y \in S : x <= y
       IN <<m>> \o SortedSeq(S \ {m})

\* Python's max(...) and min(...) over a non-empty array without NaN
RECURSIVE SeqMax(_)
SeqMax(s) == IF Len(s) = 1 THEN s[1] ELSE Max2(s[1], SeqMax(Tail(s)))
RECURSIVE SeqMin(_)
SeqMin(s) == IF Len(s) = 1 THEN s[1] ELSE Min2(s[1], SeqMin(Tail(s)))

\* a[lo:hi] for 0 <= lo, 0 <= hi
Slice(a, lo, hi) == SubSeq(a, lo + 1, Min2(hi, Len(a)))

\* a[lo:hi] = v  (a scalar broadcast over the slice)
SliceAssign(a, lo, hi, v) ==
  [k \in 1..Len(a) |-> IF lo + 1 <= k /\ k <= hi THEN v ELSE a[k]]

----------------------------------------------------------------------------
(* LocomotionForagingBends.h__getAmplitudes *)

\* (mutant) an undefined value is no sign change: only two defined
\* neighbours of different sign are
AmpSignChangeI_DefinedOnly(d) ==
  SortedSeq({j \in 0..(Len(d) - 2) :
               /\ ~IsNaN(d[j + 1])
               /\ ~IsNaN(d[j + 2])
               /\ Sign(d[j + 2]) # Sign(d[j + 1])})

\* np.flatnonzero(data_sign[1:] != data_sign[:-1]), 0-based indices
AmpSignChangeI(d) ==
  SortedSeq({j \in 0..(Len(d) - 2) : NotEqual(Sign(d[j + 2]), Sign(d[j + 1]))})

\* start_I = [0] ++ (sign_change_I + 1) and stop_I = sign_change_I ++ [n_frames-1]
AmpStartI(sci) == <<0>> \o [k \in 1..Len(sci) |-> sci[k] + 1]
AmpStopI(sci, n_frames) == sci \o <<n_frames - 1>>

\* nose_bend_angle_d[start_I] reads index 0: an IndexError on an empty array
GetAmplitudesRaises(d) == Len(d) = 0

\* positions (into start_I) of the chunks kept: those not starting with NaN
AmpKept(d, start_I) ==
  SortedSeq({c \in 1..Len(start_I) : ~IsNaN(d[start_I[c] + 1])})

\* (mutant) the maximum is taken whatever the sign of the chunk
ChunkExtremum_AlwaysMax(d, cur_start, cur_end) ==
  SeqMax(Slice(d, cur_start, cur_end))

\* max(...) of the chunk if its first value is positive, else min(...)
ChunkExtremum(d, cur_start, cur_end) ==
  IF d[cur_start + 1] > 0
  THEN SeqMax(Slice(d, cur_start, cur_end))
  ELSE SeqMin(Slice(d, cur_start, cur_end))

\* the chunk loop, from chunk i_chunk (a position in the kept lists) onwards
RECURSIVE AmpChunks(_, _, _, _, _)
AmpChunks(d, start_I, end_I, out, i_chunk) ==
  IF i_chunk > Len(start_I) THEN out
  ELSE LET cur_start == start_I[i_chunk]
           cur_end == end_I[i_chunk]
           v == ChunkExtremum(d, cur_start, cur_end)
       IN AmpChunks(d, start_I, end_I,
                    SliceAssign(out, cur_start, cur_end, v), i_chunk + 1)

\* the returned array, for a call that does not raise
h__getAmplitudes(d) ==
  LET sci == AmpSignChangeI(d)
      all_start == AmpStartI(sci)
      all_stop == AmpStopI(sci, Len(d))
      kept == AmpKept(d, all_start)
      start_I == [c \in 1..Len(kept) |-> all_start[kept[c]]]
      end_I == [c \in 1..Len(kept) |-> all_stop[kept[c]] + 1]
  IN AmpChunks(d, start_I, end_I, [k \in 1..Len(d) |-> NaN], 1)

----------------------------------------------------------------------------
(* LocomotionForagingBends.h__foragingData *)

\* nose_bend_angle_d[:min_win_size] = NaN; nose_bend_angle_d[-min_win_size:] = NaN
RemovePartialFrames(d, w) ==
  IF w > 0
  THEN [k \in 1..Len(d) |-> IF k <= w \/ k > Len(d) - w THEN NaN ELSE d[k]]
  ELSE d

\* np.diff(nose_bend_angle_d) * config.FPS
DData(d) == [k \in 1..(Len(d) - 1) |-> Mul(Sub(d[k + 1], d[k]), FPS)]

\* (mutant) the forward difference alone, not centred on the frame
CenteredSpeeds_Forward(nan_speeds, d_data) ==
  [k \in 1..Len(nan_speeds) |->
     IF 2 <= k /\ k <= Len(nan_speeds) - 1 THEN d_data[k] ELSE nan_speeds[k]]

\* speeds[1:-1] = (d_data[:-1] + d_data[1:]) / 2, speeds being all NaN before
CenteredSpeeds(nan_speeds, d_data) ==
  [k \in 1..Len(nan_speeds) |->
     IF 2 <= k /\ k <= Len(nan_speeds) - 1
     THEN Half(Add(d_data[k - 1], d_data[k]))
     ELSE nan_speeds[k]]

\* (mutant) the amplitudes are returned as h__getAmplitudes computed them
PropagateNaN_Skipped(a, s) == a

\* amplitudes[np.isnan(speeds)] = NaN
PropagateNaN(a, s) == [k \in 1..Len(a) |-> IF IsNaN(s[k]) THEN NaN ELSE a[k]]

\* what a call that does not raise leaves behind: the caller's array as
\* modified in place, and the two arrays returned
h__foragingData(nose_bend_angle, win_size, garbage) ==
  LET d == RemovePartialFrames(nose_bend_angle, win_size)
      s == CenteredSpeeds(NanArray(garbage), DData(d))
  IN [nose_bend_angle_d |-> d,
      amplitudes |-> PropagateNaN(h__getAmplitudes(d), s),
      speeds |-> s]

----------------------------------------------------------------------------
(* LocomotionForagingBends.__init__ and h__computeNoseBends *)

\* MIN_NOSE_WINDOW = round(0.1 * config.FPS)
MIN_NOSE_WINDOW == FPS \div 10

\* nose_bends_d = (noseAngles - neckAngles) * (180/np.pi), then the two
\* statements that bring the values outside +/- 180 back; angles are in degrees
h__computeNoseBends(nose, neck) ==
  LET raw == [k \in 1..Len(nose) |-> Sub(nose[k], neck[k])]
      high == [k \in 1..Len(raw) |->
                 IF ~IsNaN(raw[k]) /\ raw[k] > 180 THEN raw[k] - 360 ELSE raw[k]]
  IN [k \in 1..Len(high) |->
        IF ~IsNaN(high[k]) /\ high[k] < -180 THEN high[k] + 360 ELSE high[k]]

\* (mutant) the array is returned as it is
NegArray_Unchanged(a) == a

\* -array
NegArray(a) == [k \in 1..Len(a) |-> Neg(a[k])]

\* the attributes before __init__ has assigned them
ForagingUnassigned == [set |-> FALSE, amplitude |-> << >>, angleSpeed |-> << >>]

----------------------------------------------------------------------------
(* LocomotionCrawlingBends.__init__ and h__getBendData *)

\* the value None, also the reference that designates no array
None == 0

\* rows of bend_angles
NumBendAngles == 49

Partitions == {"head", "midbody", "tail"}

\* bends_partitions: the half-open row range of each partition
bends_partitions ==
  [head |-> <<6, 10>>, midbody |-> <<23, 27>>, tail |-> <<40, 44>>]

\* the attributes before __init__ has assigned them
Unassigned == [set |-> FALSE, amplitude |-> None, frequency |-> None]

\* a dictionary {'amplitude': amplitude, 'frequency': frequency} of references
BendDict(amplitude, frequency) ==
  [set |-> TRUE, amplitude |-> amplitude, frequency |-> frequency]

\* np.any and np.all of a boolean array
NpAny(mask) == \E k \in 1..Len(mask) : mask[k]
NpAll(mask) == \A k \in 1..Len(mask) : mask[k]

\* (mutant) the negation of np.any is dropped
IsNoWormData_NotNegated(mask) == NpAny(mask)

\* the special case "No worm data": ~np.any(is_segmented_mask)
IsNoWormData(mask) == ~NpAny(mask)

\* np.nanmean(bend_angles[lo:hi, :]) without an axis: one number for the whole
\* block, kept as the exact fraction num/den (den = 0: the NaN of an empty mean)
RECURSIVE SumDefined(_)
SumDefined(s) ==
  IF s = << >> THEN [num |-> 0, den |-> 0, interpolated |-> FALSE]
  ELSE LET rest == SumDefined(Tail(s))
       IN IF IsNaN(Head(s)) THEN rest
          ELSE [rest EXCEPT !.num = @ + Head(s), !.den = @ + 1]

RECURSIVE Flatten(_, _, _)
Flatten(matrix, lo, hi) ==
  IF lo >= hi THEN << >>
  ELSE matrix[lo + 1] \o Flatten(matrix, lo + 1, hi)

NanMeanOfBlock(matrix, lo, hi) == SumDefined(Flatten(matrix, lo, hi))

\* feature_helpers.interpolate(avg_bend_angles): the helper is opaque here, its
\* application is recorded in the value
interpolate(avg) == [avg EXCEPT !.interpolated = TRUE]

\* the argument avg_bend_angles handed to h__getBendData for a partition
AvgBendAngles(matrix, mask, p) ==
  LET avg_bend_angles ==
        NanMeanOfBlock(matrix, bends_partitions[p][1], bends_partitions[p][2])
  IN IF ~(NpAll(mask) \/ NpAny(mask))
     THEN interpolate(avg_bend_angles)
     ELSE avg_bend_angles

\* h__getBendData: the statement "return [None, None]  # DEBUG" comes before
\* everything else of the body
h__getBendData(avg_bend_angles, options, paused) == <<None, None>>

\* the options dictionary of __init__ (minBodyWinTime is 0.5); frequencies
\* are in units of 1/60 Hz
maxBodyWinTime == 15
options ==
  [minWin |-> FPS \div 2,
   maxWin |-> maxBodyWinTime * FPS,
   minFreq |-> 60 \div (4 * maxBodyWinTime),
   maxFreq |-> (60 * FPS) \div 4]

\* lines 264-269 of h__getBendData for frame iFrame (0-based): the bounds of
\* the window around the frame, from the two arrays of zero indices
WindowBounds(zeros, iFrame) ==
  LET left_distance == iFrame - zeros.back_zeros_I[iFrame + 1]
      right_distance == zeros.front_zeros_I[iFrame + 1] - iFrame
      half_distance == Max2(left_distance, right_distance)
  IN [left_bound |-> iFrame - half_distance,
      right_bound |-> iFrame + half_distance]

\* the 0-based indices array[start:stop] selects from an array of n elements;
\* a negative bound counts from the end of the array
SliceIndices(n, start, stop) ==
  LET from == IF start < 0 THEN Max2(start + n, 0) ELSE Min2(start, n)
      to == IF stop < 0 THEN Max2(stop + n, 0) ELSE Min2(stop, n)
  IN from..(to - 1)

\* lines 302-303 of h__getBendData: the samples of
\* windowed_data = avg_bend_angles[left_bounds[iFrame]:right_bounds[iFrame]]
WindowedSamples(n, zeros, iFrame) ==
  SliceIndices(n, WindowBounds(zeros, iFrame).left_bound,
               WindowBounds(zeros, iFrame).right_bound)

\* what a caller reads through a reference: no series for None
Deref(hp, ref) ==
  IF ref = None THEN [none |-> TRUE, data |-> << >>]
  ELSE [none |-> FALSE, data |-> hp[ref]]

\* the object as its caller sees it
ResultOf(slf, hp) ==
  [p \in Partitions |->
     [set |-> slf[p].set,
      amplitude |-> Deref(hp, slf[p].amplitude),
      frequency |-> Deref(hp, slf[p].frequency)]]

----------------------------------------------------------------------------
(* LocomotionCrawlingBends.h__getBoundingZeroIndices *)

\* sign_change_I = np.flatnonzero(sign(a[:-1]) != sign(a[1:])), 0-based
SignChangeI(a) ==
  SortedSeq({j \in 0..(Len(a) - 2) : NotEqual(Sign(a[j + 1]), Sign(a[j + 2]))})

\* array[index] for an index >= 0 of a 0-based array
Item(array, index) == array[index + 1]
InRange(array, index) == 0 <= index /\ index <= Len(array) - 1

\* left_sign_change_I[iFrame]: ones at sign_change_I + 1, then cumsum
left_sign_change_I(sci, iFrame) ==
  Cardinality({k \in 1..Len(sci) : sci[k] + 1 <= iFrame})

\* right_sign_change_I[iFrame]: ones at sign_change_I[:-1] + 1 and at 0, then
\* cumsum, then zero from index sign_change_I[-1] on
right_sign_change_I(sci, iFrame) ==
  IF iFrame >= sci[Len(sci)] THEN 0
  ELSE 1 + Cardinality({k \in 1..(Len(sci) - 1) : sci[k] + 1 <= iFrame})

\* left_values = sign_change_I and right_values = sign_change_I + 1
left_values(sci) == sci
right_values(sci) == [k \in 1..Len(sci) |-> sci[k] + 1]

\* right_sign_change_I[0] = 1 on an empty array, sign_change_I[-1] on an
\* empty list of sign changes: an IndexError before the loop over the frames
ZeroIndicesSetUpRaises(a) == Len(a) = 0 \/ Len(SignChangeI(a)) = 0

\* the frame is not skipped by the "continue" of the loop
FrameIsBounded(sci, iFrame) ==
  left_sign_change_I(sci, iFrame) # 0 /\ right_sign_change_I(sci, iFrame) # 0

\* the while loop "Expand the zero-crossing window" of one frame; rec is what
\* back_zeros_I[iFrame] and front_zeros_I[iFrame] hold so far
RECURSIVE ExpandWindow(_, _, _, _, _, _, _, _)
ExpandWindow(sci, iFrame, win_size, cur_left_index, cur_right_index, back_zero_I, front_zero_I, rec) ==
  IF ~((front_zero_I - back_zero_I + 1) < win_size) THEN rec
  ELSE IF (iFrame - back_zero_I) < (front_zero_I - iFrame)
       THEN \* expand to the left
            IF cur_left_index - 1 = 0 THEN rec
            ELSE LET back == Item(left_values(sci), cur_left_index - 1)
                 IN ExpandWindow(sci, iFrame, win_size, cur_left_index - 1,
                                 cur_right_index, back, front_zero_I,
                                 [raised |-> FALSE, back |-> back,
                                  front |-> front_zero_I])
       ELSE \* expand to the right
            IF cur_right_index + 1 > Len(sci) THEN rec
            ELSE IF ~InRange(right_values(sci), cur_right_index + 1)
                 THEN [rec EXCEPT !.raised = TRUE]
                 ELSE LET front == Item(right_values(sci), cur_right_index + 1)
                      IN ExpandWindow(sci, iFrame, win_size, cur_left_index,
                                      cur_right_index + 1, back_zero_I, front,
                                      [raised |-> FALSE, back |-> back_zero_I,
                                       front |-> front])

\* back_zero_I = left_values[cur_left_index] and
\* front_zero_I = right_values[cur_right_index] raise no IndexError
InitialCrossingsInRange(sci, iFrame) ==
  /\ InRange(left_values(sci), left_sign_change_I(sci, iFrame))
  /\ InRange(right_values(sci), right_sign_change_I(sci, iFrame))

\* the two crossings the window of a frame starts from
initial_back_zero_I(sci, iFrame) ==
  Item(left_values(sci), left_sign_change_I(sci, iFrame))
initial_front_zero_I(sci, iFrame) ==
  Item(right_values(sci), right_sign_change_I(sci, iFrame))

\* one iteration of "for iFrame in range(n_frames)"
ZeroIndicesOfFrame(sci, iFrame, win_size, float_ok) ==
  LET cur_left_index == left_sign_change_I(sci, iFrame)
      cur_right_index == right_sign_change_I(sci, iFrame)
      invalid == [raised |-> FALSE, back |-> 0, front |-> 0]
  IN IF ~FrameIsBounded(sci, iFrame) THEN invalid
     ELSE IF ~float_ok \/ ~InitialCrossingsInRange(sci, iFrame)
          THEN [invalid EXCEPT !.raised = TRUE]
          ELSE ExpandWindow(sci, iFrame, win_size, cur_left_index,
                            cur_right_index,
                            initial_back_zero_I(sci, iFrame),
                            initial_front_zero_I(sci, iFrame),
                            invalid)

\* the call: raised, or the two arrays [back_zeros_I, front_zeros_I]
h__getBoundingZeroIndices(a, win_size, float_ok) ==
  IF ZeroIndicesSetUpRaises(a)
  THEN [raised |-> TRUE, back_zeros_I |-> << >>, front_zeros_I |-> << >>]
  ELSE LET sci == SignChangeI(a)
           f == [k \in 1..Len(a) |-> ZeroIndicesOfFrame(sci, k - 1, win_size, float_ok)]
       IN IF \E k \in 1..Len(a) : f[k].raised
          THEN [raised |-> TRUE, back_zeros_I |-> << >>, front_zeros_I |-> << >>]
          ELSE [raised |-> FALSE,
                back_zeros_I |-> [k \in 1..Len(a) |-> f[k].back],
                front_zeros_I |-> [k \in 1..Len(a) |-> f[k].front]]

----------------------------------------------------------------------------
(* statistics.specs.EventSpecs.getData *)

\* data[selected] *= -1 for a boolean array selected as long as data
MaskedNegate(data, selected) ==
  [k \in 1..Len(data) |-> IF selected[k] THEN 0 - data[k] ELSE data[k]]

\* (mutant) a mask one longer than the data is cut at its end,
\* negate_mask[:-1], not at its start
LongMaskSelection_DropLast(negate_mask) ==
  SubSeq(negate_mask, 1, Len(negate_mask) - 1)

\* negate_mask[1:]
LongMaskSelection(negate_mask) == Tail(negate_mask)

\* lines 353-374: the three accepted shapes of the mask, else an Exception;
\* every accepted shape multiplies in place, inside the array read
NegateByMask(data, negate_mask) ==
  IF Len(negate_mask) = 1 /\ negate_mask[1]
  THEN [raised |-> FALSE, data |-> [k \in 1..Len(data) |-> 0 - data[k]]]
  ELSE IF Len(negate_mask) = Len(data)
  THEN [raised |-> FALSE, data |-> MaskedNegate(data, negate_mask)]
  ELSE IF Len(negate_mask) = Len(data) + 1
  THEN [raised |-> FALSE,
        data |-> MaskedNegate(data, LongMaskSelection(negate_mask))]
  ELSE [raised |-> TRUE, data |-> data]

\* lines 384-390: remove_mask, an array of len(data) booleans, sliced with the
\* frame numbers of the first and of the last event
RemoveMask(n, start_frames, end_frames, num_samples) ==
  LET first == IF start_frames[1] = 0
               THEN SliceIndices(n, 0, end_frames[1] + 1)
               ELSE {}
      last == IF end_frames[Len(end_frames)] = num_samples
              THEN SliceIndices(n, start_frames[Len(start_frames)], n)
              ELSE {}
  IN [k \in 1..n |-> (k - 1) \in (first \cup last)]

\* data[~remove_mask]: a new array of the entries not masked, in order
BooleanSelect(data, remove_mask) ==
  LET kept == SortedSeq({k \in 1..Len(data) : ~remove_mask[k]})
  IN [j \in 1..Len(kept) |-> data[kept[j]]]

\* what a call returns: an array, the scalar 0, or an exception
Returned(data) == [raised |-> FALSE, scalar |-> FALSE, data |-> data]
ReturnedZero == [raised |-> FALSE, scalar |-> TRUE, data |-> << >>]
Raised == [raised |-> TRUE, scalar |-> FALSE, data |-> << >>]

\* lines 404-407
ZeroIfEmpty(data, make_zero_if_empty) ==
  IF Len(data) = 0 /\ make_zero_if_empty THEN ReturnedZero ELSE Returned(data)

\* getData for a feature with a sub_field: the value returned and the event
\* object as the call leaves it (start_frames[0] of no events is an IndexError)
getData(parent_data, specs) ==
  LET negated == IF specs.is_signed
                 THEN NegateByMask(parent_data.data, parent_data.negate_mask)
                 ELSE [raised |-> FALSE, data |-> parent_data.data]
      after == [parent_data EXCEPT !.data = negated.data]
  IN IF negated.raised
     THEN [result |-> Raised, features |-> parent_data]
     ELSE IF ~specs.remove_partials
     THEN [result |-> ZeroIfEmpty(negated.data, specs.make_zero_if_empty),
           features |-> after]
     ELSE IF Len(parent_data.start_frames) = 0
     THEN [result |-> Raised, features |-> after]
     ELSE LET remove_mask == RemoveMask(Len(negated.data),
                                        parent_data.start_frames,
                                        parent_data.end_frames,
                                        specs.num_samples)
          IN [result |-> ZeroIfEmpty(BooleanSelect(negated.data, remove_mask),
                                     specs.make_zero_if_empty),
              features |-> after]

----------------------------------------------------------------------------
(* locomotion_features.get_motion_codes *)

\* frame_values = {'forward': 1, 'backward': -1, 'paused': 0}
frame_values == [forward |-> 1, backward |-> -1, paused |-> 0]

MotionTypes == DOMAIN frame_values

\* (mutant) the value is assigned to the frames outside the mask
MaskAssign_Outside(array, mask, value) ==
  [k \in 1..Len(array) |-> IF ~mask[k] THEN value ELSE array[k]]

\* array[mask] = value for a boolean mask as long as the array
MaskAssign(array, mask, value) ==
  [k \in 1..Len(array) |-> IF mask[k] THEN value ELSE array[k]]

\* the dictionary before the function has created it
NoEventsDict == [mode |-> << >>, events |-> {}]

----------------------------------------------------------------------------
(* Inputs *)

Values == (0 - MaxVal)..MaxVal \cup {NaN}

\* what np.empty(n) may hold before it is written: stale numbers or stale NaN
GarbageValues == {0, NaN}
GarbageArrays(n) == {[k \in 1..n |-> g] : g \in GarbageValues}

SeriesOfLen(n) == [1..n -> Values]

Series == UNION {SeriesOfLen(n) : n \in 0..MaxLen}

\* the example of the docstring of h__getAmplitudes
DocExample == <<1, 2, 3, 2, 1, -1, -2, -1, 1, 2, 2, 5>>

\* values of the bend angles of a frame: a ventral bend, a dorsal bend, none
BendValues == {-1, 1, NaN}

\* bend_angles whose rows all hold the same series
BendAngleMatrices(n) ==
  {[r \in 1..NumBendAngles |-> a] : a \in [1..n -> BendValues]}

Masks(n) == [1..n -> BOOLEAN]

\* magnitude spectra of a frame's window: one peak of height 4, with a minimum
\* on each side of it or at the first bin
SpectrumSamples == {<<1, 4, 1>>, <<1, 4, 2>>, <<3, 4, 1>>, <<4, 2, 1>>}

\* the events of a video of n frames: the maximal runs of true of a mask over
\* its frames 0..n-1, as their first and their last frame
EventsOfMask(in_event) ==
  LET n == Len(in_event)
      starts == {k \in 0..(n - 1) : in_event[k + 1] /\ (k = 0 \/ ~in_event[k])}
      ends == {k \in 0..(n - 1) : in_event[k + 1] /\ (k = n - 1 \/ ~in_event[k + 2])}
  IN [start_frames |-> SortedSeq(starts), end_frames |-> SortedSeq(ends)]

\* the values of one entry per event, or of one entry per gap between two
\* events; entry k holds k, so that a value names the entry it came from
EventData(n_events) ==
  {[k \in 1..n_events |-> k]} \cup
  (IF n_events > 0 THEN {[k \in 1..(n_events - 1) |-> k]} ELSE {})

NegateMasks == UNION {Masks(n) : n \in 0..MaxMaskLen}

NoFeatures ==
  [data |-> << >>, negate_mask |-> << >>, start_frames |-> << >>, end_frames |-> << >>]

NoSpecs ==
  [is_signed |-> FALSE, remove_partials |-> FALSE, make_zero_if_empty |-> FALSE,
   num_samples |-> 0]

GetDataIdle ==
  /\ worm_features = NoFeatures
  /\ features_before = NoFeatures
  /\ event_specs = NoSpecs
  /\ get_data_results = << >>

ForagingIdle ==
  /\ nose_bend_angle_d = << >>
  /\ arg0 = << >>
  /\ min_win_size = 0
  /\ amps = << >>
  /\ amplitudes = << >>
  /\ speeds = << >>

CrawlIdle ==
  /\ bend_angles = << >>
  /\ is_paused = << >>
  /\ is_segmented_mask = << >>
  /\ fft_data = << >>
  /\ heap = << >>
  /\ self = [p \in Partitions |-> Unassigned]
  /\ bends = [p \in Partitions |-> Unassigned]
  /\ todo = {}
  /\ calls = EmptyBag

RunIdle ==
  /\ run = 1
  /\ first_result = << >>

ZeroIdle ==
  /\ zi_avg_bend_angles = << >>
  /\ float_index = TRUE
  /\ back_zeros_I = << >>
  /\ front_zeros_I = << >>

\* the locals of the loop body before a frame is entered; n_steps counts the
\* passes through the while loop, outside_table tells that one of them read
\* past the end of right_values
LoopLocals(iFrame) ==
  [iFrame |-> iFrame, cur_left_index |-> 0, cur_right_index |-> 0,
   back_zero_I |-> 0, front_zero_I |-> 0, use_values |-> TRUE,
   n_steps |-> 0, outside_table |-> FALSE]

LoopIdle == loop = LoopLocals(0)

MotionIdle ==
  /\ event_mask = << >>
  /\ all_events_dict = NoEventsDict
  /\ motion_todo = {}

ForagingInitIdle ==
  /\ noseAngles = << >>
  /\ neckAngles = << >>
  /\ ventral_mode = 0
  /\ foraging = ForagingUnassigned

InitForaging ==
  /\ mode = "foraging"
  /\ pc = "ready"
  /\ nose_bend_angle_d \in Series \cup {DocExample}
  /\ arg0 = nose_bend_angle_d
  /\ min_win_size \in 0..MaxWinSize
  /\ amps = << >>
  /\ amplitudes = << >>
  /\ speeds = << >>
  /\ CrawlIdle
  /\ RunIdle
  /\ ForagingInitIdle
  /\ ZeroIdle
  /\ MotionIdle
  /\ LoopIdle
  /\ GetDataIdle

InitCrawling ==
  /\ mode = "crawling"
  /\ pc = "start"
  /\ \E n \in 0..MaxFrames :
       /\ bend_angles \in BendAngleMatrices(n)
       /\ is_paused \in Masks(n) \cup Masks(n + 1)
       /\ is_segmented_mask \in Masks(n) \cup Masks(n + 1)
  /\ fft_data \in SpectrumSamples
  /\ heap = << >>
  /\ self = [p \in Partitions |-> Unassigned]
  /\ bends = [p \in Partitions |-> Unassigned]
  /\ todo = {}
  /\ calls = EmptyBag
  /\ RunIdle
  /\ ForagingIdle
  /\ ForagingInitIdle
  /\ ZeroIdle
  /\ MotionIdle
  /\ LoopIdle
  /\ GetDataIdle

\* angles the two head sections take in the model, in degrees
NoseAngleValues == {-90, 180}
NeckAngleValues == {-90, 90, 180}

InitForagingBends ==
  /\ mode = "foraging_init"
  /\ pc = "start"
  /\ \E n \in 0..MaxNoseLen :
       /\ noseAngles \in [1..n -> NoseAngleValues]
       /\ neckAngles \in {[k \in 1..n |-> c] : c \in NeckAngleValues}
  /\ ventral_mode \in 0..2
  /\ foraging = ForagingUnassigned
  /\ ForagingIdle
  /\ CrawlIdle
  /\ RunIdle
  /\ ZeroIdle
  /\ MotionIdle
  /\ LoopIdle
  /\ GetDataIdle

\* signals handed to h__getBoundingZeroIndices
SignalValues == {-1, 0, 1, NaN}

InitZeroIndices ==
  /\ mode = "zero_indices"
  /\ pc = "ready"
  /\ \E n \in 0..MaxSignal : zi_avg_bend_angles \in [1..n -> SignalValues]
  /\ float_index \in BOOLEAN
  /\ back_zeros_I = << >>
  /\ front_zeros_I = << >>
  /\ nose_bend_angle_d = << >>
  /\ arg0 = << >>
  /\ min_win_size \in 1..MaxMinWin
  /\ amps = << >>
  /\ amplitudes = << >>
  /\ speeds = << >>
  /\ CrawlIdle
  /\ RunIdle
  /\ ForagingInitIdle
  /\ MotionIdle
  /\ LoopIdle
  /\ GetDataIdle

InitMotionCodes ==
  /\ mode = "motion_codes"
  /\ pc = "start"
  /\ \E num_frames \in 0..MaxMotionFrames :
       event_mask \in [MotionTypes -> Masks(num_frames)]
  /\ all_events_dict = NoEventsDict
  /\ motion_todo = {}
  /\ ForagingIdle
  /\ CrawlIdle
  /\ RunIdle
  /\ ForagingInitIdle
  /\ ZeroIdle
  /\ LoopIdle
  /\ GetDataIdle

\* signals whose loop is followed step by step
LoopSignalValues == {-1, 1}

\* the loop of h__getBoundingZeroIndices about to run its body for one frame;
\* the statements before the loop have not raised
InitExpand ==
  /\ mode = "expand"
  /\ pc = "frame"
  /\ \E n \in 1..MaxLoopSignal : zi_avg_bend_angles \in [1..n -> LoopSignalValues]
  /\ ~ZeroIndicesSetUpRaises(zi_avg_bend_angles)
  /\ float_index \in BOOLEAN
  /\ back_zeros_I = [k \in 1..Len(zi_avg_bend_angles) |-> 0]
  /\ front_zeros_I = [k \in 1..Len(zi_avg_bend_angles) |-> 0]
  /\ \E iFrame \in 0..(Len(zi_avg_bend_angles) - 1) : loop = LoopLocals(iFrame)
  /\ nose_bend_angle_d = << >>
  /\ arg0 = << >>
  /\ min_win_size \in 1..MaxLoopMinWin
  /\ amps = << >>
  /\ amplitudes = << >>
  /\ speeds = << >>
  /\ CrawlIdle
  /\ RunIdle
  /\ ForagingInitIdle
  /\ MotionIdle
  /\ GetDataIdle

\* an unsigned feature has no signed_field, hence no mask
InitGetData ==
  /\ mode = "get_data"
  /\ pc = "ready"
  /\ \E num_samples \in 1..MaxSamples :
       \E in_event \in Masks(num_samples) :
          \E is_signed \in BOOLEAN, remove_partials \in BOOLEAN, make_zero_if_empty \in BOOLEAN :
             LET events == EventsOfMask(in_event)
             IN /\ \E data \in EventData(Len(events.start_frames)) :
                     \E negate_mask \in (IF is_signed THEN NegateMasks ELSE {<< >>}) :
                        worm_features = [data |-> data,
                                         negate_mask |-> negate_mask,
                                         start_frames |-> events.start_frames,
                                         end_frames |-> events.end_frames]
                /\ event_specs = [is_signed |-> is_signed,
                                  remove_partials |-> remove_partials,
                                  make_zero_if_empty |-> make_zero_if_empty,
                                  num_samples |-> num_samples]
  /\ features_before = worm_features
  /\ get_data_results = << >>
  /\ ForagingIdle
  /\ CrawlIdle
  /\ RunIdle
  /\ ForagingInitIdle
  /\ ZeroIdle
  /\ MotionIdle
  /\ LoopIdle

Init ==
  \/ InitGetData
  \/ InitExpand
  \/ InitForaging
  \/ InitCrawling
  \/ InitForagingBends
  \/ InitZeroIndices
  \/ InitMotionCodes

----------------------------------------------------------------------------
(* Actions *)

\* a direct call amps = self.h__getAmplitudes(nose_bend_angle_d)
CallGetAmplitudes ==
  /\ mode = "foraging"
  /\ pc = "ready"
  /\ IF GetAmplitudesRaises(nose_bend_angle_d)
     THEN /\ pc' = "raised"
          /\ amps' = amps
     ELSE /\ pc' = "amps_returned"
          /\ amps' = h__getAmplitudes(nose_bend_angle_d)
  /\ UNCHANGED <<mode, nose_bend_angle_d, arg0, min_win_size, amplitudes, speeds>>
  /\ UNCHANGED <<crawlInputs, crawlVars, run, first_result, foragingInitVars>>
  /\ UNCHANGED zeroVars
  /\ UNCHANGED motionVars
  /\ UNCHANGED loop
  /\ UNCHANGED getDataVars

\* a call amplitudes, speeds = self.h__foragingData(nose_bend_angle_d, min_win_size)
CallForagingData ==
  /\ mode = "foraging"
  /\ pc = "ready"
  /\ IF GetAmplitudesRaises(RemovePartialFrames(nose_bend_angle_d, min_win_size))
     THEN /\ pc' = "raised"
          /\ nose_bend_angle_d' = RemovePartialFrames(nose_bend_angle_d, min_win_size)
          /\ UNCHANGED <<amplitudes, speeds>>
     ELSE /\ pc' = "foraging_returned"
          /\ \E garbage \in GarbageArrays(Len(nose_bend_angle_d)) :
               LET r == h__foragingData(nose_bend_angle_d, min_win_size, garbage)
               IN /\ nose_bend_angle_d' = r.nose_bend_angle_d
                  /\ amplitudes' = r.amplitudes
                  /\ speeds' = r.speeds
  /\ UNCHANGED <<mode, arg0, min_win_size, amps>>
  /\ UNCHANGED <<crawlInputs, crawlVars, run, first_result, foragingInitVars>>
  /\ UNCHANGED zeroVars
  /\ UNCHANGED motionVars
  /\ UNCHANGED loop
  /\ UNCHANGED getDataVars

\* LocomotionCrawlingBends.__init__, special case "No worm data"
CrawlNoWormData ==
  /\ mode = "crawling"
  /\ pc = "start"
  /\ IsNoWormData(is_segmented_mask)
  /\ \E garbage \in GarbageArrays(Len(is_segmented_mask)) :
       LET nan_data == NanArray(garbage)
           frequency == Len(heap) + 2      \* nan_data.copy()
           amplitude == Len(heap) + 3      \* nan_data.copy()
           bend_dict == BendDict(amplitude, frequency)
       IN /\ heap' = heap \o <<nan_data, nan_data, nan_data>>
          \* bend_dict.copy() is a new dictionary holding the same two arrays
          /\ self' = [head |-> bend_dict, midbody |-> bend_dict, tail |-> bend_dict]
  /\ pc' = "done"
  /\ UNCHANGED <<mode, foragingVars, crawlInputs, bends, todo, calls, run, first_result>>
  /\ UNCHANGED foragingInitVars
  /\ UNCHANGED zeroVars
  /\ UNCHANGED motionVars
  /\ UNCHANGED loop
  /\ UNCHANGED getDataVars

\* LocomotionCrawlingBends.__init__, "Set things up for the loop"
CrawlSetUp ==
  /\ mode = "crawling"
  /\ pc = "start"
  /\ ~IsNoWormData(is_segmented_mask)
  /\ bends' = [p \in Partitions |-> Unassigned]
  /\ todo' = Partitions
  /\ pc' = "loop"
  /\ UNCHANGED <<mode, foragingVars, crawlInputs, heap, self, calls, run, first_result>>
  /\ UNCHANGED foragingInitVars
  /\ UNCHANGED zeroVars
  /\ UNCHANGED motionVars
  /\ UNCHANGED loop
  /\ UNCHANGED getDataVars

\* one iteration of "for cur_partition in bends_partitions.keys()"; the order
\* of the keys of a dictionary is not fixed by the language
CrawlPartition ==
  /\ mode = "crawling"
  /\ pc = "loop"
  /\ \E cur_partition \in todo :
       LET avg_bend_angles ==
             AvgBendAngles(bend_angles, is_segmented_mask, cur_partition)
           r == h__getBendData(avg_bend_angles, options, is_paused)
       IN /\ calls' = calls (+) SetToBag({[partition |-> cur_partition,
                                              avg_bend_angles |-> avg_bend_angles]})
          /\ bends' = [bends EXCEPT ![cur_partition] = BendDict(r[1], r[2])]
          /\ todo' = todo \ {cur_partition}
  /\ UNCHANGED <<mode, pc, foragingVars, crawlInputs, heap, self, run, first_result>>
  /\ UNCHANGED foragingInitVars
  /\ UNCHANGED zeroVars
  /\ UNCHANGED motionVars
  /\ UNCHANGED loop
  /\ UNCHANGED getDataVars

\* "turn our bends dictionary into properties of the class itself"
CrawlAssign ==
  /\ mode = "crawling"
  /\ pc = "loop"
  /\ todo = {}
  /\ self' = bends
  /\ pc' = "done"
  /\ UNCHANGED <<mode, foragingVars, crawlInputs, heap, bends, todo, calls, run, first_result>>
  /\ UNCHANGED foragingInitVars
  /\ UNCHANGED zeroVars
  /\ UNCHANGED motionVars
  /\ UNCHANGED loop
  /\ UNCHANGED getDataVars

\* the caller stores 0.0 into element k of one of the series of the finished
\* object, e.g. obj.head['amplitude'][k] = 0.0; a series that is None cannot
\* be written
Fields == {"amplitude", "frequency"}
CallerWrites ==
  /\ mode = "crawling"
  /\ pc = "done"
  /\ \E p \in Partitions, f \in Fields :
       LET ref == self[p][f]
       IN /\ ref # None
          /\ \E k \in 1..Len(heap[ref]) :
               heap' = [heap EXCEPT ![ref][k] = 0]
  /\ pc' = "written"
  /\ UNCHANGED <<mode, foragingVars, crawlInputs, self, bends, todo, calls, run, first_result>>
  /\ UNCHANGED foragingInitVars
  /\ UNCHANGED zeroVars
  /\ UNCHANGED motionVars
  /\ UNCHANGED loop
  /\ UNCHANGED getDataVars

\* the caller constructs a second object from the same arguments
CrawlAgain ==
  /\ mode = "crawling"
  /\ pc = "done"
  /\ run = 1
  /\ first_result' = ResultOf(self, heap)
  /\ run' = 2
  /\ self' = [p \in Partitions |-> Unassigned]
  /\ pc' = "start"
  /\ UNCHANGED <<mode, foragingVars, crawlInputs, heap, bends, todo, calls>>
  /\ UNCHANGED foragingInitVars
  /\ UNCHANGED zeroVars
  /\ UNCHANGED motionVars
  /\ UNCHANGED loop
  /\ UNCHANGED getDataVars

\* LocomotionForagingBends.__init__, from the angles of the two head sections
ForagingBendsInit ==
  /\ mode = "foraging_init"
  /\ pc = "start"
  /\ LET nose_bends == h__computeNoseBends(noseAngles, neckAngles)
     IN IF GetAmplitudesRaises(RemovePartialFrames(nose_bends, MIN_NOSE_WINDOW))
        THEN /\ pc' = "raised"
             /\ UNCHANGED foraging
        ELSE /\ pc' = "done"
             /\ \E garbage \in GarbageArrays(Len(nose_bends)) :
                  LET r == h__foragingData(nose_bends, MIN_NOSE_WINDOW, garbage)
                      nose_amps == r.amplitudes
                      nose_freqs == r.speeds
                  IN foraging' =
                       IF ventral_mode > 1
                       THEN [set |-> TRUE, amplitude |-> NegArray(nose_amps),
                             angleSpeed |-> NegArray(nose_freqs)]
                       ELSE [set |-> TRUE, amplitude |-> nose_amps,
                             angleSpeed |-> nose_freqs]
  /\ UNCHANGED <<mode, foragingVars, crawlInputs, crawlVars, run, first_result>>
  /\ UNCHANGED <<noseAngles, neckAngles, ventral_mode>>
  /\ UNCHANGED zeroVars
  /\ UNCHANGED motionVars
  /\ UNCHANGED loop
  /\ UNCHANGED getDataVars

\* the caller constructs a second object from the same arguments
ForagingBendsAgain ==
  /\ mode = "foraging_init"
  /\ pc = "done"
  /\ run = 1
  /\ first_result' = foraging
  /\ run' = 2
  /\ foraging' = ForagingUnassigned
  /\ pc' = "start"
  /\ UNCHANGED <<mode, foragingVars, crawlInputs, crawlVars>>
  /\ UNCHANGED <<noseAngles, neckAngles, ventral_mode>>
  /\ UNCHANGED zeroVars
  /\ UNCHANGED motionVars
  /\ UNCHANGED loop
  /\ UNCHANGED getDataVars

\* a direct call self.h__getBoundingZeroIndices(avg_bend_angles, min_win_size)
CallGetBoundingZeroIndices ==
  /\ mode = "zero_indices"
  /\ pc = "ready"
  /\ LET r == h__getBoundingZeroIndices(zi_avg_bend_angles, min_win_size, float_index)
     IN /\ pc' = IF r.raised THEN "raised" ELSE "zeros_returned"
        /\ back_zeros_I' = r.back_zeros_I
        /\ front_zeros_I' = r.front_zeros_I
  /\ UNCHANGED <<mode, foragingVars, crawlInputs, crawlVars, run, first_result>>
  /\ UNCHANGED <<foragingInitVars, zi_avg_bend_angles, float_index>>
  /\ UNCHANGED motionVars
  /\ UNCHANGED loop
  /\ UNCHANGED getDataVars

otherVars ==
  <<foragingVars, crawlInputs, crawlVars, run, first_result, foragingInitVars,
    zeroVars, loop>>

\* get_motion_codes up to "all_events_dict['mode'] = np.empty(...) * np.NaN"
MotionCodesStart ==
  /\ mode = "motion_codes"
  /\ pc = "start"
  /\ \E garbage \in GarbageArrays(Len(event_mask["forward"])) :
       all_events_dict' = [mode |-> NanArray(garbage), events |-> {}]
  /\ motion_todo' = MotionTypes
  /\ pc' = "events"
  /\ UNCHANGED <<mode, event_mask, otherVars>>
  /\ UNCHANGED getDataVars

\* one iteration of "for motion_type in frame_values"; the order of the keys
\* of a dictionary is not fixed by the language
MotionCodesEvent ==
  /\ mode = "motion_codes"
  /\ pc = "events"
  /\ \E motion_type \in motion_todo :
       /\ all_events_dict' =
            [mode |-> MaskAssign(all_events_dict.mode, event_mask[motion_type],
                                 frame_values[motion_type]),
             events |-> all_events_dict.events \cup {motion_type}]
       /\ motion_todo' = motion_todo \ {motion_type}
  /\ UNCHANGED <<mode, pc, event_mask, otherVars>>
  /\ UNCHANGED getDataVars

\* "return all_events_dict"
MotionCodesReturn ==
  /\ mode = "motion_codes"
  /\ pc = "events"
  /\ motion_todo = {}
  /\ pc' = "codes_returned"
  /\ UNCHANGED <<mode, event_mask, all_events_dict, motion_todo, otherVars>>
  /\ UNCHANGED getDataVars

\* state the loop of h__getBoundingZeroIndices leaves alone
loopFrame ==
  <<mode, zi_avg_bend_angles, float_index, foragingVars, crawlInputs,
    crawlVars, run, first_result, foragingInitVars, motionVars>>

\* lines 473-483: the head of the loop body for frame loop.iFrame
ExpandEnter ==
  /\ mode = "expand"
  /\ pc = "frame"
  /\ LET sci == SignChangeI(zi_avg_bend_angles)
         iFrame == loop.iFrame
     IN IF ~FrameIsBounded(sci, iFrame)
        THEN /\ pc' = "frame_done"
             /\ loop' = [loop EXCEPT
                           !.cur_left_index = left_sign_change_I(sci, iFrame),
                           !.cur_right_index = right_sign_change_I(sci, iFrame)]
        ELSE IF ~float_index \/ ~InitialCrossingsInRange(sci, iFrame)
        THEN /\ pc' = "raised"
             /\ loop' = [loop EXCEPT
                           !.cur_left_index = left_sign_change_I(sci, iFrame),
                           !.cur_right_index = right_sign_change_I(sci, iFrame)]
        ELSE /\ pc' = "while"
             /\ loop' = [loop EXCEPT
                           !.cur_left_index = left_sign_change_I(sci, iFrame),
                           !.cur_right_index = right_sign_change_I(sci, iFrame),
                           !.back_zero_I = initial_back_zero_I(sci, iFrame),
                           !.front_zero_I = initial_front_zero_I(sci, iFrame),
                           !.use_values = TRUE]
  /\ UNCHANGED <<back_zeros_I, front_zeros_I, loopFrame>>
  /\ UNCHANGED getDataVars

\* the condition of "while (front_zero_I - back_zero_I + 1) < min_win_size"
WhileCondition == (loop.front_zero_I - loop.back_zero_I + 1) < min_win_size

\* "if (iFrame - back_zero_I) < (front_zero_I - iFrame)"
LeftIsSmaller ==
  (loop.iFrame - loop.back_zero_I) < (loop.front_zero_I - loop.iFrame)

\* one pass of the loop body through "Expand to the left"
ExpandLeft ==
  /\ mode = "expand"
  /\ pc = "while"
  /\ WhileCondition
  /\ LeftIsSmaller
  /\ LET sci == SignChangeI(zi_avg_bend_angles)
         cur_left_index == loop.cur_left_index - 1
     IN IF cur_left_index = 0
        THEN /\ loop' = [loop EXCEPT !.cur_left_index = cur_left_index,
                                     !.use_values = FALSE,
                                     !.n_steps = @ + 1]
             /\ pc' = "frame_done"
             /\ UNCHANGED <<back_zeros_I, front_zeros_I>>
        ELSE LET back_zero_I == Item(left_values(sci), cur_left_index)
             IN /\ loop' = [loop EXCEPT !.cur_left_index = cur_left_index,
                                        !.back_zero_I = back_zero_I,
                                        !.n_steps = @ + 1]
                /\ back_zeros_I' =
                     [back_zeros_I EXCEPT ![loop.iFrame + 1] = back_zero_I]
                /\ front_zeros_I' =
                     [front_zeros_I EXCEPT ![loop.iFrame + 1] = loop.front_zero_I]
                /\ pc' = "while"
  /\ UNCHANGED loopFrame
  /\ UNCHANGED getDataVars

\* one pass of the loop body through "Expand to the right"
ExpandRight ==
  /\ mode = "expand"
  /\ pc = "while"
  /\ WhileCondition
  /\ ~LeftIsSmaller
  /\ LET sci == SignChangeI(zi_avg_bend_angles)
         cur_right_index == loop.cur_right_index + 1
     IN IF cur_right_index > Len(sci)
        THEN /\ loop' = [loop EXCEPT !.cur_right_index = cur_right_index,
                                     !.use_values = FALSE,
                                     !.n_steps = @ + 1]
             /\ pc' = "frame_done"
             /\ UNCHANGED <<back_zeros_I, front_zeros_I>>
        ELSE IF ~InRange(right_values(sci), cur_right_index)
        THEN /\ loop' = [loop EXCEPT !.cur_right_index = cur_right_index,
                                     !.outside_table = TRUE,
                                     !.n_steps = @ + 1]
             /\ pc' = "raised"
             /\ UNCHANGED <<back_zeros_I, front_zeros_I>>
        ELSE LET front_zero_I == Item(right_values(sci), cur_right_index)
             IN /\ loop' = [loop EXCEPT !.cur_right_index = cur_right_index,
                                        !.front_zero_I = front_zero_I,
                                        !.n_steps = @ + 1]
                /\ back_zeros_I' =
                     [back_zeros_I EXCEPT ![loop.iFrame + 1] = loop.back_zero_I]
                /\ front_zeros_I' =
                     [front_zeros_I EXCEPT ![loop.iFrame + 1] = front_zero_I]
                /\ pc' = "while"
  /\ UNCHANGED loopFrame
  /\ UNCHANGED getDataVars

\* the loop condition is false: the body of the frame is over
ExpandExit ==
  /\ mode = "expand"
  /\ pc = "while"
  /\ ~WhileCondition
  /\ pc' = "frame_done"
  /\ UNCHANGED <<loop, back_zeros_I, front_zeros_I, loopFrame>>
  /\ UNCHANGED getDataVars

\* a call data = specs.getData(worm_features, num_samples)
CallGetData ==
  /\ mode = "get_data"
  /\ Len(get_data_results) < MaxCalls
  /\ LET r == getData(worm_features, event_specs)
     IN /\ worm_features' = r.features
        /\ get_data_results' = Append(get_data_results, r.result)
  /\ pc' = "called"
  /\ UNCHANGED <<mode, features_before, event_specs>>
  /\ UNCHANGED <<foragingVars, crawlInputs, crawlVars, run, first_result>>
  /\ UNCHANGED foragingInitVars
  /\ UNCHANGED zeroVars
  /\ UNCHANGED motionVars
  /\ UNCHANGED loop

Next ==
  \/ CallGetData
  \/ ExpandEnter
  \/ ExpandLeft
  \/ ExpandRight
  \/ ExpandExit
  \/ MotionCodesStart
  \/ MotionCodesEvent
  \/ MotionCodesReturn
  \/ CallGetBoundingZeroIndices
  \/ CallGetAmplitudes
  \/ CallForagingData
  \/ CrawlNoWormData
  \/ CrawlSetUp
  \/ CrawlPartition
  \/ CrawlAssign
  \/ CrawlAgain
  \/ CallerWrites
  \/ ForagingBendsInit
  \/ ForagingBendsAgain

Spec == Init /\ [][Next]_vars

----------------------------------------------------------------------------
(* Claims about the foraging helpers *)

HasNoNaN(s) == \A k \in 1..Len(s) : ~IsNaN(s[k])

\* the maximal run of constant sign of V around position k
RunAround(V, k) ==
  {j \in 1..Len(V) :
     \A m \in Min2(j, k)..Max2(j, k) : Sign(V[m]) = Sign(V[k])}

SetMax(S) == CHOOSE x \in S : \A y \in S : x >= y
SetMin(S) == CHOOSE x \in S : \A y \in S : x <= y

RunExtremum(V, k) ==
  LET vals == {V[j] : j \in RunAround(V, k)}
  IN IF V[k] > 0 THEN SetMax(vals) ELSE SetMin(vals)

\* C7: for a fully defined series V, h__getAmplitudes returns a series of the
\* same length whose every position holds the maximum of V over the maximal
\* constant-sign run around it when the run is positive and the minimum
\* otherwise; the docstring example maps to [3,3,3,3,3,-2,-2,-2,5,5,5,5].
C7_StairStep ==
  (pc = "amps_returned" /\ HasNoNaN(arg0)) =>
     /\ Len(amps) = Len(arg0)
     /\ \A k \in 1..Len(arg0) : amps[k] = RunExtremum(arg0, k)
     /\ (arg0 = DocExample => amps = <<3, 3, 3, 3, 3, -2, -2, -2, 5, 5, 5, 5>>)

\* a returned call on a defined series with a negative run of unequal values
C7_Witness ==
  /\ pc = "amps_returned"
  /\ HasNoNaN(arg0)
  /\ \E k \in 1..(Len(arg0) - 1) :
       /\ arg0[k] < 0 /\ arg0[k + 1] < 0 /\ arg0[k] # arg0[k + 1]
       /\ amps[k] = amps[k + 1]

\* C25: for a series V with undefined entries h__getAmplitudes returns a
\* series that is undefined exactly where V is; an undefined entry ends the
\* run on its left and starts a new one on its right, so every defined
\* position holds the extremum of the defined values of its own run only.
C25_UndefinedBreaksRuns ==
  (pc = "amps_returned" /\ ~HasNoNaN(arg0)) =>
     /\ Len(amps) = Len(arg0)
     /\ \A k \in 1..Len(arg0) : IsNaN(amps[k]) <=> IsNaN(arg0[k])
     /\ \A k \in 1..Len(arg0) :
          ~IsNaN(arg0[k]) =>
             /\ \A j \in RunAround(arg0, k) : ~IsNaN(arg0[j])
             /\ amps[k] = RunExtremum(arg0, k)

\* a returned call on a series where an undefined entry separates two
\* positive values that differ: each keeps its own value
C25_Witness ==
  /\ pc = "amps_returned"
  /\ \E k \in 2..(Len(arg0) - 1) :
       /\ IsNaN(arg0[k])
       /\ arg0[k - 1] > 0 /\ arg0[k + 1] > 0 /\ arg0[k - 1] # arg0[k + 1]
       /\ IsNaN(amps[k])
       /\ amps[k - 1] # amps[k + 1]

\* C27: h__foragingData leaves the series passed to it as it was: after the
\* call every element of the caller's array has the value it had before, for
\* every minimum window size.
C27_InputSeriesUnchanged ==
  pc = "foraging_returned" =>
     /\ Len(nose_bend_angle_d) = Len(arg0)
     /\ \A k \in 1..Len(arg0) : nose_bend_angle_d[k] = arg0[k]

\* C8: the angular speed is undefined at the first and at the last frame and
\* at every interior frame i equals ((A[i]-A[i-1]) + (A[i+1]-A[i])) * FPS / 2,
\* A being the series the speed is computed from.
C8_CenteredSpeed ==
  pc = "foraging_returned" =>
     LET A == nose_bend_angle_d
         n == Len(A)
     IN /\ Len(speeds) = n
        /\ IsNaN(speeds[1])
        /\ IsNaN(speeds[n])
        /\ \A k \in 2..(n - 1) :
             speeds[k] =
               Half(Mul(Add(Sub(A[k], A[k - 1]), Sub(A[k + 1], A[k])), FPS))
        /\ (min_win_size = 0 => A = arg0)

\* a returned call with an interior frame whose two differences differ
C8_Witness ==
  /\ pc = "foraging_returned"
  /\ \E k \in 2..(Len(speeds) - 1) :
       /\ ~IsNaN(speeds[k])
       /\ Sub(arg0[k], arg0[k - 1]) # Sub(arg0[k + 1], arg0[k])
       /\ speeds[k] # 0

\* C9: in the foraging result the amplitude is undefined at every frame at
\* which the angular speed is undefined.
C9_AmplitudeUndefinedWhereSpeedIs ==
  pc = "foraging_returned" =>
     /\ Len(amplitudes) = Len(speeds)
     /\ \A k \in 1..Len(speeds) : IsNaN(speeds[k]) => IsNaN(amplitudes[k])

\* a returned call in which a frame with a stair-step amplitude lost it
\* because its speed is undefined, while another frame kept its amplitude
C9_Witness ==
  /\ pc = "foraging_returned"
  /\ \E k \in 1..Len(speeds) :
       /\ ~IsNaN(h__getAmplitudes(nose_bend_angle_d)[k])
       /\ IsNaN(speeds[k])
       /\ IsNaN(amplitudes[k])
  /\ \E k \in 1..Len(speeds) : ~IsNaN(amplitudes[k])

----------------------------------------------------------------------------
(* Claims about the crawling bends *)

\* number of frames of the recording
n_frames == Len(is_segmented_mask)

\* the three arguments describe the same number of frames
ValidInput ==
  /\ Len(is_paused) = n_frames
  /\ \A r \in 1..NumBendAngles : Len(bend_angles[r]) = n_frames

CrawlDone == mode = "crawling" /\ pc = "done"

\* the series the caller reads for a partition
Amplitude(p) == ResultOf(self, heap)[p].amplitude
Frequency(p) == ResultOf(self, heap)[p].frequency

\* series is an array with n_frames elements
IsFrameSeries(series) == ~series.none /\ Len(series.data) = n_frames

\* series has an element for frame i (position i of the sequence)
HasFrame(series, i) == ~series.none /\ i \in 1..Len(series.data)

AllUndefined(series) == \A k \in 1..Len(series.data) : IsNaN(series.data[k])

\* C1: if the segmentation mask is false for every frame, every partition has
\* an amplitude series and a frequency series of n elements, all undefined,
\* and h__getBendData is never invoked.
C1_NoWormData ==
  (mode = "crawling" /\ ~NpAny(is_segmented_mask)) =>
     /\ calls = EmptyBag
     /\ pc = "done" =>
          \A p \in Partitions :
             /\ self[p].set
             /\ IsFrameSeries(Amplitude(p)) /\ AllUndefined(Amplitude(p))
             /\ IsFrameSeries(Frequency(p)) /\ AllUndefined(Frequency(p))

\* an object built from a recording of two or more frames, none segmented
C1_Witness ==
  /\ CrawlDone
  /\ n_frames >= 2
  /\ ~NpAny(is_segmented_mask)
  /\ \A p \in Partitions : Len(Amplitude(p).data) = n_frames

\* C2: with at least one segmented frame, the result of every partition has
\* an amplitude series and a frequency series of exactly n elements.
C2_FullLengthSeries ==
  (CrawlDone /\ ValidInput /\ NpAny(is_segmented_mask)) =>
     \A p \in Partitions :
        IsFrameSeries(Amplitude(p)) /\ IsFrameSeries(Frequency(p))

\* C3: at every frame of every partition the crawling frequency has a value,
\* and where that value is defined its absolute value lies between the
\* configured minimum and maximum frequency, both inclusive.
Abs(x) == IF x < 0 THEN 0 - x ELSE x

PartitionSignal(p) ==
  LET lo == bends_partitions[p][1]
      hi == bends_partitions[p][2]
  IN [k \in 1..n_frames |->
        LET m == SumDefined([r \in 1..(hi - lo) |-> bend_angles[lo + r][k]])
        IN IF m.den = 0 THEN NaN ELSE m.num]

\* the window of frame i of a partition: resolved when both zero indices of
\* the frame were recorded, with its bounds and the sign of the mean inside
WindowOf(p, i) ==
  LET a == PartitionSignal(p)
      zeros == h__getBoundingZeroIndices(a, options.minWin, TRUE)
  IN IF zeros.raised \/ zeros.back_zeros_I[i] = 0 \/ zeros.front_zeros_I[i] = 0
     THEN [resolved |-> FALSE, span |-> 0, dataSign |-> NaN,
           left_bound |-> 0, right_bound |-> 0]
     ELSE LET b == WindowBounds(zeros, i - 1)
              m == SumDefined(Slice(a, Max2(b.left_bound, 0), b.right_bound))
          IN [resolved |-> TRUE,
              span |-> b.right_bound - b.left_bound,
              dataSign |-> IF m.den = 0 THEN NaN ELSE Sign(m.num),
              left_bound |-> b.left_bound, right_bound |-> b.right_bound]

BothDefined(p, i) ==
  ~IsNaN(Amplitude(p).data[i]) /\ ~IsNaN(Frequency(p).data[i])

BothUndefined(p, i) ==
  IsNaN(Amplitude(p).data[i]) /\ IsNaN(Frequency(p).data[i])

maxPeak == SeqMax(fft_data)
maxPeakI == CHOOSE k \in 1..Len(fft_data) : fft_data[k] = maxPeak
LeftMinimum == SeqMin(SubSeq(fft_data, 1, maxPeakI - 1))
RightMinimum == SeqMin(SubSeq(fft_data, maxPeakI + 1, Len(fft_data)))

\* a flanking minimum is at least options.max_amp_pct_bandwidth (one half)
\* of the peak
FlankingMinimumTooHigh ==
  /\ maxPeakI > 1
  /\ 2 * LeftMinimum >= maxPeak \/ 2 * RightMinimum >= maxPeak

C11_RejectionIsPerFrame ==
  (CrawlDone /\ ValidInput /\ NpAny(is_segmented_mask)) =>
     \A p \in Partitions : \A i \in 1..n_frames :
        ~WindowOf(p, i).resolved =>
           /\ IsFrameSeries(Amplitude(p))
           /\ IsFrameSeries(Frequency(p))
           /\ BothUndefined(p, i)

\* C12: a construction handed a pause mask or a segmentation mask whose
\* length is not the number of frames of bend_angles does not return a
\* result.
C12_MismatchedLengthsFail ==
  CrawlDone => ValidInput

----------------------------------------------------------------------------
(* Claims about LocomotionForagingBends.__init__ *)

ForagingBendsDone == mode = "foraging_init" /\ pc = "done"

\* the construction ran h__computeNoseBends, to its end or to an exception
ForagingBendsRan == mode = "foraging_init" /\ pc \in {"done", "raised"}

\* the bend angles h__computeNoseBends returned to __init__
nose_bends == h__computeNoseBends(noseAngles, neckAngles)

\* C13: for nose and neck angles in [-180, 180] the bend angle returned by
\* h__computeNoseBends is nose minus neck modulo 360 and is greater than -180
\* and at most 180.
C13_BendAngleHalfOpen ==
  ForagingBendsRan =>
     \A k \in 1..Len(nose_bends) :
        /\ (nose_bends[k] - (noseAngles[k] - neckAngles[k])) % 360 = 0
        /\ nose_bends[k] > -180
        /\ nose_bends[k] <= 180

\* what h__foragingData returned to __init__ (lines 799-800)
nose_amps_freqs ==
  h__foragingData(nose_bends, MIN_NOSE_WINDOW,
                  CHOOSE g \in GarbageArrays(Len(nose_bends)) : TRUE)

----------------------------------------------------------------------------
(* Claims about get_motion_codes *)

MotionCodesReturned == mode = "motion_codes" /\ pc = "codes_returned"

num_frames == Len(event_mask["forward"])

\* the motion types whose event mask covers frame k
Covering(k) == {t \in MotionTypes : event_mask[t][k]}

\* C15: the mode series returned by get_motion_codes has one entry per frame,
\* each -1, 0, 1 or undefined; a frame covered by the event mask of exactly
\* one motion type holds 1 for forward, 0 for paused, -1 for backward, and a
\* frame covered by no event mask is undefined.
C15_ModePerFrame ==
  MotionCodesReturned =>
     /\ Len(all_events_dict.mode) = num_frames
     /\ \A k \in 1..num_frames :
          /\ all_events_dict.mode[k] \in {-1, 0, 1, NaN}
          /\ Covering(k) = {"forward"} => all_events_dict.mode[k] = 1
          /\ Covering(k) = {"paused"} => all_events_dict.mode[k] = 0
          /\ Covering(k) = {"backward"} => all_events_dict.mode[k] = -1
          /\ Covering(k) = {} => IsNaN(all_events_dict.mode[k])

\* a returned dictionary for a recording with a forward frame, a paused
\* frame and a frame no event covers
C15_Witness ==
  /\ MotionCodesReturned
  /\ \E i, j, k \in 1..num_frames :
       /\ Covering(i) = {"forward"}
       /\ Covering(j) = {"paused"}
       /\ Covering(k) = {}
       /\ all_events_dict.mode[i] = 1

----------------------------------------------------------------------------
(* Claims about h__getBoundingZeroIndices *)

\* the call has been made: it returned the two arrays or raised
ZeroIndicesCalled ==
  mode = "zero_indices" /\ pc \in {"zeros_returned", "raised"}

ZeroIndicesReturned == mode = "zero_indices" /\ pc = "zeros_returned"

\* frames of the signal, 0-based as in the code
Frames == 0..(Len(zi_avg_bend_angles) - 1)

\* the sign changes of the signal before frame i and at or after it; a sign
\* change at j lies between the samples j and j + 1
ChangesBefore(i) ==
  {SignChangeI(zi_avg_bend_angles)[k] :
     k \in {q \in 1..Len(SignChangeI(zi_avg_bend_angles)) :
              SignChangeI(zi_avg_bend_angles)[q] < i}}
ChangesAfter(i) ==
  {SignChangeI(zi_avg_bend_angles)[k] :
     k \in {q \in 1..Len(SignChangeI(zi_avg_bend_angles)) :
              SignChangeI(zi_avg_bend_angles)[q] >= i}}

\* the nearest crossings of frame i
NearestBack(i) == SetMax(ChangesBefore(i))
NearestFront(i) == SetMin(ChangesAfter(i)) + 1

\* C16: for every frame with a sign change on both sides, the window starts
\* from the largest sign change smaller than the frame and from the position
\* just after the smallest sign change at or after the frame.
C16_InitialCrossingsAreNearest ==
  ZeroIndicesCalled =>
     \A i \in Frames :
        (ChangesBefore(i) # {} /\ ChangesAfter(i) # {}) =>
           LET sci == SignChangeI(zi_avg_bend_angles)
           IN /\ InitialCrossingsInRange(sci, i)
              /\ initial_back_zero_I(sci, i) = NearestBack(i)
              /\ initial_front_zero_I(sci, i) = NearestFront(i)

\* what the call returned for frame i
BackOf(i) == back_zeros_I[i + 1]
FrontOf(i) == front_zeros_I[i + 1]

\* frame i is marked invalid in what the call returned
MarkedInvalid(i) == BackOf(i) = 0 /\ FrontOf(i) = 0

\* frame i has a sign change on both sides and its nearest crossings are
\* already min_win_size apart
NearestSuffice(i) ==
  /\ ChangesBefore(i) # {}
  /\ ChangesAfter(i) # {}
  /\ NearestFront(i) - NearestBack(i) + 1 >= min_win_size

\* C17: in what h__getBoundingZeroIndices returns, a frame with no sign
\* change before it or none after it is marked invalid, a frame whose nearest
\* crossings already make a window is not, and no frame has 0 as one bound
\* and a crossing as the other.
C17_InvalidIffUnresolvable ==
  ZeroIndicesReturned =>
     \A i \in Frames :
        /\ (ChangesBefore(i) = {} \/ ChangesAfter(i) = {}) => MarkedInvalid(i)
        /\ NearestSuffice(i) => ~MarkedInvalid(i)
        /\ (BackOf(i) = 0) <=> (FrontOf(i) = 0)

\* C18: for a frame whose nearest crossings are already min_win_size apart
\* the call returns, and returns exactly those two crossings for the frame.
C18_NoExpansionNeeded ==
  ZeroIndicesCalled =>
     \A i \in Frames :
        NearestSuffice(i) =>
           /\ pc = "zeros_returned"
           /\ BackOf(i) = NearestBack(i)
           /\ FrontOf(i) = NearestFront(i)

\* the sign changes of the signal, as a set
SignChanges ==
  {SignChangeI(zi_avg_bend_angles)[k] :
     k \in 1..Len(SignChangeI(zi_avg_bend_angles))}

\* the crossings further out than the current bounds of the window
FurtherBack == {j \in SignChanges : j < loop.back_zero_I}
FurtherFront == {j + 1 : j \in {q \in SignChanges : q + 1 > loop.front_zero_I}}

\* the frame of the loop ends invalid, with neither bound recorded
EndsInvalid ==
  /\ pc' = "frame_done"
  /\ back_zeros_I'[loop.iFrame + 1] = 0
  /\ front_zeros_I'[loop.iFrame + 1] = 0

\* one pass through the body of the loop, as the claim describes it
ExpansionStep ==
  IF LeftIsSmaller
  THEN IF FurtherBack # {}
       THEN /\ pc' = "while"
            /\ loop'.back_zero_I = SetMax(FurtherBack)
            /\ loop'.front_zero_I = loop.front_zero_I
       ELSE EndsInvalid
  ELSE IF FurtherFront # {}
       THEN /\ pc' = "while"
            /\ loop'.front_zero_I = SetMin(FurtherFront)
            /\ loop'.back_zero_I = loop.back_zero_I
       ELSE EndsInvalid

\* C19: each pass of the expansion loop moves one bound to the next sign
\* change outward, on the side nearer to the frame (the right side on a tie),
\* and leaves the other bound alone; when that side has no further sign
\* change the frame ends invalid with neither bound recorded.
C19_ExpansionStep ==
  [][(mode = "expand" /\ pc = "while" /\ WhileCondition) => ExpansionStep]_vars

\* the signal has one sign change and both of its runs are shorter than
\* min_win_size
OneShortSignChange ==
  /\ Cardinality(SignChanges) = 1
  /\ \A j \in SignChanges :
       j + 1 < min_win_size /\ Len(zi_avg_bend_angles) - (j + 1) < min_win_size

\* C20: the expansion loop of a frame makes at most as many passes as the
\* signal has sign changes and never reads outside the table of sign
\* changes; for a signal with one sign change and runs shorter than
\* min_win_size the call returns with every frame invalid.
C20_ExpansionTerminates ==
  /\ mode = "expand" =>
       /\ loop.n_steps <= Cardinality(SignChanges)
       /\ ~loop.outside_table
  /\ (ZeroIndicesCalled /\ OneShortSignChange) =>
       /\ pc = "zeros_returned"
       /\ \A i \in Frames : MarkedInvalid(i)

\* the two arrays the call returned, as h__getBendData receives them
ReturnedZeros ==
  [back_zeros_I |-> back_zeros_I, front_zeros_I |-> front_zeros_I]

\* the larger of the two crossing distances of frame i
HalfOf(i) == Max2(i - BackOf(i), FrontOf(i) - i)

Excluded(p, i) ==
  \/ is_paused[i]
  \/ IsNaN(PartitionSignal(p)[i])
  \/ ~WindowOf(p, i).resolved
  \/ WindowOf(p, i).span > options.maxWin
  \/ WindowOf(p, i).left_bound < 0
  \/ WindowOf(p, i).right_bound > n_frames - 1

\* C22: a frame that is paused, whose bend angle is undefined, or whose
\* window is invalid, longer than the maximum window or outside the series
\* has an undefined amplitude and an undefined frequency; in particular
\* every paused frame.
C22_ExcludedFramesUndefined ==
  (CrawlDone /\ ValidInput /\ NpAny(is_segmented_mask)) =>
     \A p \in Partitions : \A i \in 1..n_frames :
        Excluded(p, i) =>
           /\ HasFrame(Amplitude(p), i)
           /\ HasFrame(Frequency(p), i)
           /\ BothUndefined(p, i)

EstimatorInputs == {c.avg_bend_angles : c \in BagToSet(calls)}

\* C24: with a segmentation mask that has both segmented and unsegmented
\* frames every mean signal handed to the bend estimator has been
\* gap-interpolated; with every frame segmented none has.
C24_MixedMaskInterpolated ==
  (mode = "crawling" /\ ValidInput) =>
     \A avg \in EstimatorInputs :
        /\ (NpAny(is_segmented_mask) /\ ~NpAll(is_segmented_mask)) =>
              avg.interpolated
        /\ NpAll(is_segmented_mask) => ~avg.interpolated

\* the series of the finished object that a step has changed
ChangedSeries ==
  {pf \in Partitions \X Fields :
     Deref(heap', self'[pf[1]][pf[2]]) # Deref(heap, self[pf[1]][pf[2]])}

\* C26: the six series of a crawling result, the degenerate one included, are
\* six arrays of their own: a write of one element of one partition's series
\* changes that series and no other.
C26_SixDistinctStores ==
  [][(CrawlDone /\ pc' = "written") =>
        /\ \A p \in Partitions, f \in Fields : ~Deref(heap, self[p][f]).none
        /\ Cardinality(ChangedSeries) = 1]_vars

----------------------------------------------------------------------------
(* Claims about EventSpecs.getData *)

GetDataCalled == mode = "get_data" /\ Len(get_data_results) >= 1

\* whether the mask has one of the three shapes accepted for the data
MaskFits(data, negate_mask) ==
  \/ Len(negate_mask) = 1 /\ negate_mask[1]
  \/ Len(negate_mask) = Len(data)
  \/ Len(negate_mask) = Len(data) + 1

\* whether entry k (from 1) of the data is under a true element of the mask
Selected(data, negate_mask, k) ==
  IF Len(negate_mask) = 1 /\ negate_mask[1] THEN TRUE
  ELSE IF Len(negate_mask) = Len(data) THEN negate_mask[k]
  ELSE negate_mask[k + 1]

\* C28: for a signed field the data returned are the stored data negated by
\* the mask: all of them under a one-element true mask, entry k under a true
\* element k of a mask of the same length, entry k under a true element k+1
\* of a mask one longer; entries not selected are returned as stored, and
\* every other pair of lengths raises an exception.
C28_NegatedByMask ==
  (GetDataCalled /\ event_specs.is_signed /\ ~event_specs.remove_partials) =>
     LET stored == features_before.data
         negate_mask == features_before.negate_mask
         r == get_data_results[1]
     IN IF MaskFits(stored, negate_mask)
        THEN /\ ~r.raised
             /\ Len(r.data) = Len(stored)
             /\ \A k \in 1..Len(stored) :
                  r.data[k] = IF Selected(stored, negate_mask, k)
                              THEN 0 - stored[k]
                              ELSE stored[k]
        ELSE r.raised

\* a call with a mask one longer than the data, where an entry outside the
\* mask's second element onwards stays and one under it is negated
C28_Witness ==
  /\ GetDataCalled /\ event_specs.is_signed /\ ~event_specs.remove_partials
  /\ Len(features_before.negate_mask) = Len(features_before.data) + 1
  /\ \E k \in 1..Len(features_before.data) :
       /\ features_before.negate_mask[k + 1]
       /\ ~features_before.negate_mask[k]
       /\ get_data_results[1].data[k] = 0 - features_before.data[k]
  /\ \E k \in 1..Len(features_before.data) :
       /\ ~features_before.negate_mask[k + 1]
       /\ get_data_results[1].data[k] = features_before.data[k]

\* the entries of one entry per event that are to be returned when partial
\* events are removed: not the first if the first event starts at frame 0,
\* not the last if the last event ends at the final frame
WholeEvents(parent_data, num_samples) ==
  LET n == Len(parent_data.start_frames)
  IN {k \in 1..n :
        /\ ~(k = 1 /\ parent_data.start_frames[1] = 0)
        /\ ~(k = n /\ parent_data.end_frames[n] = num_samples - 1)}

\* C29: with remove_partials set the first event's entry is removed exactly
\* when the first event starts at frame 0 and the last event's entry exactly
\* when the last event ends at the final frame of the video; every other
\* entry is returned unchanged and in order.
C29_PartialEventsRemoved ==
  (/\ GetDataCalled
   /\ event_specs.remove_partials
   /\ ~event_specs.is_signed
   /\ Len(features_before.start_frames) >= 1
   /\ Len(features_before.data) = Len(features_before.start_frames)) =>
     LET whole == SortedSeq(WholeEvents(features_before, event_specs.num_samples))
         r == get_data_results[1]
     IN /\ ~r.raised
        /\ r.data = [j \in 1..Len(whole) |-> features_before.data[whole[j]]]

\* C30: getData does not change the feature object it reads, and a second
\* call with the same arguments returns what the first call returned.
C30_FeaturesNotChanged ==
  mode = "get_data" =>
     /\ worm_features = features_before
     /\ Len(get_data_results) = 2 => get_data_results[2] = get_data_results[1]

----------------------------------------------------------------------------
(* Claims about both features *)

====
